---- MODULE Spec2Model ----
(***************************************************************************)
(* Routing kernel of the route optimization server:                        *)
(*   GraphEngine        - the network store (nodes, edges, adjacencyList), *)
(*                        the cost kernel, the three path solvers and the  *)
(*                        route builder;                                   *)
(*   OptimizationEngine - findOptimalRoute, its relaxed-weights fallback   *)
(*                        and reoptimizeRoute.                              *)
(* Source: src/server/src/algorithms/optimization-engine.ts.               *)
(*                                                                         *)
(* Numbers.  The source computes in IEEE doubles; the model computes in    *)
(* integers.  Weights are held in hundredths, reliabilities in             *)
(* percent; a node's position is its longitude in hundredths of a degree,  *)
(* and the distance between two nodes is their east-west separation on the *)
(* equator, KmPerDegree * |dLng| (in hundredths of a km): zero exactly for *)
(* equal coordinates, as the haversine distance is.  Infinity is a         *)
(* number larger than every finite score, absorbing under Plus.            *)
(* A JavaScript Map or Set is a sequence in insertion order.               *)
(***************************************************************************)
EXTENDS Integers, Sequences, FiniteSets, TLC

VARIABLES
    nodes,          \* GraphEngine.nodes: Map<string, NetworkNode>, insertion order
    edges,          \* GraphEngine.edges: Map<string, NetworkEdge>, insertion order
    adjacencyList,  \* GraphEngine.adjacencyList: nodeId -> [edgeIds]
    call,           \* the operation that ran last, with its arguments
    ret,            \* what that operation returned (or that it threw / never returned)
    snap,           \* the store as it was before the operation(s) `call` tracks
    task,           \* a reoptimizeRoute call suspended at its await
    run             \* the locals of a solver call that is executed loop by loop

vars == <<nodes, edges, adjacencyList, call, ret, snap, task, run>>

-----------------------------------------------------------------------------
(* Bounds and the values inputs are drawn from.                            *)

MaxAdjLen == 2

\* edges added while a network is built, for the specifications that start from one
MaxBuildEdges == 2

KmPerDegree == 111

Infinity == 1000000000

Undefined == 0 - 1

EMPTY == ""

NodeIds == {"a", "b", "c"}

EdgeIds == {"e1", "e2", "e3"}

\* ids a caller passes as startId / goalId; whether they are in the node index
\* depends on the store
QueryIds == NodeIds

\* NetworkNode values offered to addNode: a and b share their coordinates
NodeCatalogue ==
    { [id |-> "a", lng |-> 0, customsRequired |-> FALSE],
      [id |-> "b", lng |-> 0, customsRequired |-> TRUE],
      [id |-> "c", lng |-> 100, customsRequired |-> FALSE] }

MkEdge(id, s, t, cost, time) ==
    [id |-> id, source |-> s, target |-> t,
     baseCost |-> cost, baseTime |-> time,
     distance |-> 10, carbonEmissions |-> 1, reliability |-> 90,
     capacity |-> 5, fuelCost |-> 1, tollCost |-> 0]

\* NetworkEdge values offered to addEdge.  e3 is the dear direct edge a->c or an
\* edge parallel to e1; e1 may be re-added with another source.
EdgeCatalogue ==
    { MkEdge("e1", "a", "b", 1, 1),
      MkEdge("e1", "c", "b", 1, 1),
      MkEdge("e2", "b", "c", 1, 1),
      MkEdge("e3", "a", "c", 5, 1),
      MkEdge("e3", "a", "b", 2, 1) }

-----------------------------------------------------------------------------
(* Sequences as ordered maps.                                              *)

RECURSIVE SeqFilterOut(_, _)
SeqFilterOut(s, x) ==
    IF s = <<>> THEN <<>>
    ELSE IF Head(s) = x THEN SeqFilterOut(Tail(s), x)
    ELSE <<Head(s)>> \o SeqFilterOut(Tail(s), x)

Range(s) == { s[i] : i \in DOMAIN s }

Ids(m) == { m[i].id : i \in DOMAIN m }

\* Map.has / Map.get on a sequence of records keyed by id
MapHas(m, id) == id \in Ids(m)

MapGet(m, id) == m[CHOOSE i \in DOMAIN m : m[i].id = id]

\* Map.set: an existing key keeps its place, a new key goes last
MapSet(m, v) ==
    IF MapHas(m, v.id)
    THEN [i \in DOMAIN m |-> IF m[i].id = v.id THEN v ELSE m[i]]
    ELSE Append(m, v)

RECURSIVE MapDelete(_, _)
MapDelete(m, id) ==
    IF m = <<>> THEN <<>>
    ELSE IF Head(m).id = id THEN Tail(m)
    ELSE <<Head(m)>> \o MapDelete(Tail(m), id)

\* Array.indexOf + splice(index, 1): drops the first occurrence only
RECURSIVE SpliceFirst(_, _)
SpliceFirst(s, x) ==
    IF s = <<>> THEN <<>>
    ELSE IF Head(s) = x THEN Tail(s)
    ELSE <<Head(s)>> \o SpliceFirst(Tail(s), x)

-----------------------------------------------------------------------------
(* The network store as a value, and its mutators.                         *)

Store == [nodes |-> nodes, edges |-> edges, adjacencyList |-> adjacencyList]

EmptyStore == [nodes |-> <<>>, edges |-> <<>>, adjacencyList |-> <<>>]

\* adjacencyList is a function from the node ids that have a slot
AdjHas(S, id) == id \in DOMAIN S.adjacencyList

AdjGet(S, id) == IF AdjHas(S, id) THEN S.adjacencyList[id] ELSE <<>>

AdjSet(adj, id, list) ==
    [k \in (DOMAIN adj) \cup {id} |-> IF k = id THEN list ELSE adj[k]]

addNode(S, node) ==
    [S EXCEPT !.nodes = MapSet(S.nodes, node),
              !.adjacencyList =
                  IF AdjHas(S, node.id) THEN @ ELSE AdjSet(@, node.id, <<>>)]

addEdge(S, edge) ==
    [S EXCEPT !.edges = MapSet(S.edges, edge),
              !.adjacencyList =
                  AdjSet(@, edge.source, Append(AdjGet(S, edge.source), edge.id))]

\* removeNode that forgets the edges arriving at the node
removeNodeOutgoingOnly(S, id) ==
    [S EXCEPT !.nodes = MapDelete(S.nodes, id),
              !.adjacencyList = [k \in (DOMAIN @) \ {id} |-> @[k]],
              !.edges = SelectSeq(@, LAMBDA e : e.source # id)]

removeNode(S, id) ==
    [S EXCEPT !.nodes = MapDelete(S.nodes, id),
              !.adjacencyList = [k \in (DOMAIN @) \ {id} |-> @[k]],
              !.edges = SelectSeq(@, LAMBDA e : e.source # id /\ e.target # id)]

removeEdge(S, id) ==
    IF MapHas(S.edges, id)
    THEN LET edge == MapGet(S.edges, id) IN
         [S EXCEPT !.edges = MapDelete(S.edges, id),
                   !.adjacencyList =
                       IF AdjHas(S, edge.source)
                       THEN AdjSet(@, edge.source, SpliceFirst(@[edge.source], id))
                       ELSE @]
    ELSE S

-----------------------------------------------------------------------------
(* Lookups.                                                                *)

\* Map.get on a function whose domain is the set of keys present
Get(m, k) == IF k \in DOMAIN m THEN m[k] ELSE Undefined

Put(m, k, v) == [x \in (DOMAIN m) \cup {k} |-> IF x = k THEN v ELSE m[x]]

\* `x || Infinity`: undefined AND zero are falsy, both become Infinity
OrInfinity(v) == IF v = Undefined \/ v = 0 THEN Infinity ELSE v

\* IEEE addition with Infinity absorbing
Plus(x, y) == IF x >= Infinity \/ y >= Infinity THEN Infinity ELSE x + y

Abs(x) == IF x < 0 THEN 0 - x ELSE x

RECURSIVE NeighborsOf(_, _)
NeighborsOf(S, edgeIds) ==
    IF edgeIds = <<>> THEN <<>>
    ELSE LET edgeId == Head(edgeIds)
             rest == NeighborsOf(S, Tail(edgeIds))
         IN IF MapHas(S.edges, edgeId)
            THEN LET edge == MapGet(S.edges, edgeId) IN
                 IF MapHas(S.nodes, edge.target)
                 THEN <<[node |-> MapGet(S.nodes, edge.target), edge |-> edge]>> \o rest
                 ELSE rest
            ELSE rest

getNeighbors(S, nodeId) == NeighborsOf(S, AdjGet(S, nodeId))

-----------------------------------------------------------------------------
(* Cost kernel.  Weights are in hundredths, so scores are too, and the     *)
(* heuristic (km) is taken a hundredfold where it is added to a score.     *)

heuristic(S, nodeId, targetId) ==
    IF ~MapHas(S.nodes, nodeId) \/ ~MapHas(S.nodes, targetId) THEN Infinity
    ELSE KmPerDegree
            * Abs(MapGet(S.nodes, targetId).lng - MapGet(S.nodes, nodeId).lng)

calculateEdgeCost(edge, config) ==
    edge.baseCost * config.weights.cost
    + edge.baseTime * config.weights.time
    + edge.carbonEmissions * edge.distance * config.weights.carbon
    + (100 - edge.reliability) * config.weights.risk

-----------------------------------------------------------------------------
(* Results of a solver call.                                               *)

None == [kind |-> "none", path |-> <<>>]

Path(p) == [kind |-> "path", path |-> p]

\* the call never returns (its loop repeats a state)
Diverges == [kind |-> "diverges", path |-> <<>>]

\* reconstructPath: walks the came-from map back from `current`, prepending.
\* The walk is deterministic, so meeting a predecessor twice means it never ends.
RECURSIVE Reconstruct(_, _, _, _)
Reconstruct(cameFrom, current, path, seen) ==
    IF current \notin DOMAIN cameFrom THEN Path(path)
    ELSE LET p == cameFrom[current] IN
         IF p \in seen THEN Diverges
         ELSE Reconstruct(cameFrom, p, <<p>> \o path, seen \cup {p})

reconstructPath(cameFrom, current) ==
    Reconstruct(cameFrom, current, <<current>>, {current})

-----------------------------------------------------------------------------
(* findPathAStar.                                                          *)

AStarInit(S, startId, goalId) ==
    [openSet |-> <<startId>>,
     cameFrom |-> <<>>,
     gScore |-> Put(<<>>, startId, 0),
     fScore |-> Put(<<>>, startId, heuristic(S, startId, goalId))]

\* the scan for the lowest fScore: `current` stays '' unless some f < Infinity
RECURSIVE LowestF(_, _, _, _)
LowestF(open, fScore, current, lowestF) ==
    IF open = <<>> THEN current
    ELSE LET f == OrInfinity(Get(fScore, Head(open))) IN
         IF f < lowestF
         THEN LowestF(Tail(open), fScore, Head(open), f)
         ELSE LowestF(Tail(open), fScore, current, lowestF)

AStarCurrent(st) == LowestF(st.openSet, st.fScore, EMPTY, Infinity)

RECURSIVE AStarRelax(_, _, _, _, _, _)
AStarRelax(S, st, current, neighbors, goalId, config) ==
    IF neighbors = <<>> THEN st
    ELSE LET node == Head(neighbors).node
             edge == Head(neighbors).edge
             tentativeGScore == Plus(OrInfinity(Get(st.gScore, current)),
                                     calculateEdgeCost(edge, config))
             st2 == IF tentativeGScore < OrInfinity(Get(st.gScore, node.id))
                    THEN [st EXCEPT
                            !.cameFrom = Put(@, node.id, current),
                            !.gScore = Put(@, node.id, tentativeGScore),
                            !.fScore = Put(@, node.id,
                                Plus(tentativeGScore, heuristic(S, node.id, goalId))),
                            !.openSet = IF node.id \in Range(@) THEN @
                                        ELSE Append(@, node.id)]
                    ELSE st
         IN AStarRelax(S, st2, current, Tail(neighbors), goalId, config)

\* openSet.delete(current), then the relaxation of current's neighbours
AStarExpand(S, st, current, goalId, config) ==
    AStarRelax(S, [st EXCEPT !.openSet = SeqFilterOut(@, current)],
               current, getNeighbors(S, current), goalId, config)

\* The while loop.  An iteration that changes nothing repeats forever.
RECURSIVE AStarLoop(_, _, _, _)
AStarLoop(S, st, goalId, config) ==
    IF st.openSet = <<>> THEN None
    ELSE LET current == AStarCurrent(st) IN
         IF current = goalId THEN reconstructPath(st.cameFrom, current)
         ELSE LET st2 == AStarExpand(S, st, current, goalId, config) IN
              IF st2 = st THEN Diverges
              ELSE AStarLoop(S, st2, goalId, config)

findPathAStar(S, startId, goalId, config) ==
    AStarLoop(S, AStarInit(S, startId, goalId), goalId, config)

-----------------------------------------------------------------------------
(* findPathDijkstra.                                                       *)

RECURSIVE InitDistances(_)
InitDistances(ns) ==
    IF ns = <<>> THEN <<>>
    ELSE Put(InitDistances(Tail(ns)), Head(ns).id, Infinity)

DijkstraInit(S, startId) ==
    [distances |-> Put(InitDistances(S.nodes), startId, 0),
     previous |-> <<>>,
     unvisited |-> [i \in DOMAIN S.nodes |-> S.nodes[i].id]]

\* the scan for the smallest distance: <<current, minDist>>
RECURSIVE SmallestDist(_, _, _, _)
SmallestDist(unvisited, distances, current, minDist) ==
    IF unvisited = <<>> THEN <<current, minDist>>
    ELSE LET dist == OrInfinity(Get(distances, Head(unvisited))) IN
         IF dist < minDist
         THEN SmallestDist(Tail(unvisited), distances, Head(unvisited), dist)
         ELSE SmallestDist(Tail(unvisited), distances, current, minDist)

DijkstraCurrent(st) == SmallestDist(st.unvisited, st.distances, EMPTY, Infinity)

RECURSIVE DijkstraRelax(_, _, _, _)
DijkstraRelax(st, current, neighbors, config) ==
    IF neighbors = <<>> THEN st
    ELSE LET node == Head(neighbors).node
             edge == Head(neighbors).edge
             alt == Plus(OrInfinity(Get(st.distances, current)),
                         calculateEdgeCost(edge, config))
             st2 == IF node.id \in Range(st.unvisited)
                       /\ alt < OrInfinity(Get(st.distances, node.id))
                    THEN [st EXCEPT !.distances = Put(@, node.id, alt),
                                    !.previous = Put(@, node.id, current)]
                    ELSE st
         IN DijkstraRelax(st2, current, Tail(neighbors), config)

DijkstraExpand(S, st, current, config) ==
    DijkstraRelax([st EXCEPT !.unvisited = SeqFilterOut(@, current)],
                  current, getNeighbors(S, current), config)

RECURSIVE DijkstraLoop(_, _, _, _)
DijkstraLoop(S, st, goalId, config) ==
    IF st.unvisited = <<>> THEN None
    ELSE LET sel == DijkstraCurrent(st) IN
         IF sel[1] = goalId THEN reconstructPath(st.previous, sel[1])
         ELSE IF sel[2] = Infinity THEN None
         ELSE DijkstraLoop(S, DijkstraExpand(S, st, sel[1], config), goalId, config)

findPathDijkstra(S, startId, goalId, config) ==
    DijkstraLoop(S, DijkstraInit(S, startId), goalId, config)

-----------------------------------------------------------------------------
(* findPathBidirectional.                                                  *)

\* the loop has not returned yet
Running == [kind |-> "running", path |-> <<>>]

BidiInit(startId, goalId) ==
    [forwardVisited |-> Put(<<>>, startId, EMPTY),
     backwardVisited |-> Put(<<>>, goalId, EMPTY),
     forwardQueue |-> <<startId>>,
     backwardQueue |-> <<goalId>>]

RECURSIVE BackwardWalk(_, _, _)
BackwardWalk(backward, current, backwardPath) ==
    IF current \in DOMAIN backward /\ backward[current] # EMPTY
    THEN BackwardWalk(backward, backward[current],
                      Append(backwardPath, backward[current]))
    ELSE backwardPath

mergePaths(forward, backward, meetingPoint) ==
    LET forwardPath == reconstructPath(forward, meetingPoint) IN
    IF forwardPath.kind = "path"
    THEN Path(forwardPath.path \o BackwardWalk(backward, meetingPoint, <<>>))
    ELSE forwardPath

RECURSIVE ForwardVisit(_, _, _)
ForwardVisit(st, current, neighbors) ==
    IF neighbors = <<>> THEN st
    ELSE LET id == Head(neighbors).node.id
             st2 == IF id \notin DOMAIN st.forwardVisited
                    THEN [st EXCEPT !.forwardVisited = Put(@, id, current),
                                    !.forwardQueue = Append(@, id)]
                    ELSE st
         IN ForwardVisit(st2, current, Tail(neighbors))

RECURSIVE BackwardVisit(_, _, _)
BackwardVisit(st, current, es) ==
    IF es = <<>> THEN st
    ELSE LET edge == Head(es)
             st2 == IF edge.target = current
                       /\ edge.source \notin DOMAIN st.backwardVisited
                    THEN [st EXCEPT !.backwardVisited = Put(@, edge.source, current),
                                    !.backwardQueue = Append(@, edge.source)]
                    ELSE st
         IN BackwardVisit(st2, current, Tail(es))

\* the forward half of one iteration: <<result, locals>>
BidiForward(S, st) ==
    IF st.forwardQueue = <<>> THEN [result |-> Running, st |-> st]
    ELSE LET current == Head(st.forwardQueue)
             st1 == [st EXCEPT !.forwardQueue = Tail(@)]
         IN IF current \in DOMAIN st.backwardVisited
            THEN [result |-> mergePaths(st.forwardVisited, st.backwardVisited, current),
                  st |-> st1]
            ELSE [result |-> Running,
                  st |-> ForwardVisit(st1, current, getNeighbors(S, current))]

\* the backward half of one iteration
BidiBackward(S, st) ==
    IF st.backwardQueue = <<>> THEN [result |-> Running, st |-> st]
    ELSE LET current == Head(st.backwardQueue)
             st1 == [st EXCEPT !.backwardQueue = Tail(@)]
         IN IF current \in DOMAIN st.forwardVisited
            THEN [result |-> mergePaths(st.forwardVisited, st.backwardVisited, current),
                  st |-> st1]
            ELSE [result |-> Running, st |-> BackwardVisit(st1, current, S.edges)]

RECURSIVE BidiLoop(_, _)
BidiLoop(S, st) ==
    IF st.forwardQueue = <<>> /\ st.backwardQueue = <<>> THEN None
    ELSE LET f == BidiForward(S, st) IN
         IF f.result # Running THEN f.result
         ELSE LET b == BidiBackward(S, f.st) IN
              IF b.result # Running THEN b.result
              ELSE BidiLoop(S, b.st)

findPathBidirectional(S, startId, goalId, config) ==
    BidiLoop(S, BidiInit(startId, goalId))

-----------------------------------------------------------------------------
(* pathToRoute.  Money is in hundredths, so insurance = baseCost * 0.02 is *)
(* 2 * baseCost; a ratio is a record [num, den].                            *)

ZeroCost ==
    [linehaul |-> 0, fuelSurcharge |-> 0, accessorials |-> 0, detention |-> 0,
     drayage |-> 0, tolls |-> 0, customs |-> 0, insurance |-> 0, total |-> 0]

\* Object.values(segmentCost).reduce(...): every numeric field, total (still 0) included
SumOfFields(c) ==
    c.linehaul + c.fuelSurcharge + c.accessorials + c.detention + c.drayage
    + c.tolls + c.customs + c.insurance + c.total

SegmentCost(edge, fromNode) ==
    LET c == [ZeroCost EXCEPT !.linehaul = 100 * edge.baseCost,
                              !.fuelSurcharge = 100 * edge.fuelCost,
                              !.tolls = 100 * edge.tollCost,
                              !.customs = IF fromNode.customsRequired THEN 15000 ELSE 0,
                              !.insurance = 2 * edge.baseCost]
    IN [c EXCEPT !.total = SumOfFields(c)]

\* the accumulation with the key `total` left out
AddCostExceptTotal(t, c) ==
    [k \in DOMAIN t |-> IF k = "total" THEN t[k] ELSE t[k] + c[k]]

AddCost(t, c) ==
    [k \in DOMAIN t |-> t[k] + c[k]]

MkSegment(S, i, fromId, toId, edge) ==
    [index |-> i,
     from |-> fromId, fromDefined |-> MapHas(S.nodes, fromId),
     to |-> toId, toDefined |-> MapHas(S.nodes, toId),
     edge |-> edge,
     distance |-> edge.distance,
     estimatedTime |-> edge.baseTime,
     cost |-> SegmentCost(edge, MapGet(S.nodes, fromId)),
     carbonEmissions |-> edge.carbonEmissions * edge.distance]

\* edgeIds.map(id => edges.get(id)).find(e => e && e.target === to): <<found, edge>>
RECURSIVE FindEdge(_, _, _)
FindEdge(S, edgeIds, toId) ==
    IF edgeIds = <<>> THEN <<FALSE, Undefined>>
    ELSE IF MapHas(S.edges, Head(edgeIds))
            /\ MapGet(S.edges, Head(edgeIds)).target = toId
         THEN <<TRUE, MapGet(S.edges, Head(edgeIds))>>
         ELSE FindEdge(S, Tail(edgeIds), toId)

RECURSIVE SumSeq(_)
SumSeq(xs) == IF xs = <<>> THEN 0 ELSE Head(xs) + SumSeq(Tail(xs))

RECURSIVE ProdSeq(_)
ProdSeq(xs) == IF xs = <<>> THEN 1 ELSE Head(xs) * ProdSeq(Tail(xs))

RECURSIVE Power(_, _)
Power(b, n) == IF n = 0 THEN 1 ELSE b * Power(b, n - 1)

Reliabilities(segments) == [i \in DOMAIN segments |-> segments[i].edge.reliability]

calculateServiceLevel(segments) ==
    IF Len(segments) = 0 THEN [num |-> 0, den |-> 1]
    ELSE [num |-> SumSeq(Reliabilities(segments)), den |-> Len(segments)]

calculateReliability(segments) ==
    IF Len(segments) = 0 THEN [num |-> 0, den |-> 1]
    ELSE [num |-> ProdSeq(Reliabilities(segments)), den |-> Power(100, Len(segments))]

calculateRiskScore(segments) ==
    IF Len(segments) = 0 THEN [num |-> 0, den |-> 1]
    ELSE LET reliability == calculateReliability(segments) IN
         [num |-> (reliability.den - reliability.num) * 100, den |-> reliability.den]

EmptyRoute ==
    [segments |-> <<>>, totalDistance |-> 0, totalTime |-> 0, totalCarbon |-> 0,
     totalCost |-> ZeroCost,
     serviceLevel |-> [num |-> 0, den |-> 1],
     reliability |-> [num |-> 0, den |-> 1],
     riskScore |-> [num |-> 0, den |-> 1]]

\* the segment loop: <<threw, segments>>.  fromNode.customsRequired throws a
\* TypeError when an edge is found for a pair whose from node is not in the store.
RECURSIVE SegmentLoop(_, _, _, _)
SegmentLoop(S, nodePath, i, segments) ==
    IF i > Len(nodePath) - 1 THEN <<FALSE, segments>>
    ELSE LET found == FindEdge(S, AdjGet(S, nodePath[i]), nodePath[i + 1]) IN
         IF ~found[1] THEN SegmentLoop(S, nodePath, i + 1, segments)
         ELSE IF ~MapHas(S.nodes, nodePath[i]) THEN <<TRUE, segments>>
         ELSE SegmentLoop(S, nodePath, i + 1,
                Append(segments,
                       MkSegment(S, i - 1, nodePath[i], nodePath[i + 1], found[2])))

RECURSIVE TotalCost(_)
TotalCost(segments) ==
    IF segments = <<>> THEN ZeroCost
    ELSE AddCost(TotalCost(SubSeq(segments, 1, Len(segments) - 1)),
                 segments[Len(segments)].cost)

BuildRoute(segments) ==
    [segments |-> segments,
     totalDistance |-> SumSeq([i \in DOMAIN segments |-> segments[i].distance]),
     totalTime |-> SumSeq([i \in DOMAIN segments |-> segments[i].estimatedTime]),
     totalCarbon |-> SumSeq([i \in DOMAIN segments |-> segments[i].carbonEmissions]),
     totalCost |-> TotalCost(segments),
     serviceLevel |-> calculateServiceLevel(segments),
     reliability |-> calculateReliability(segments),
     riskScore |-> calculateRiskScore(segments)]

pathToRoute(S, nodePath, config) ==
    LET r == SegmentLoop(S, nodePath, 1, <<>>) IN
    IF r[1] THEN [kind |-> "throws", route |-> EmptyRoute]
    ELSE [kind |-> "route", route |-> BuildRoute(r[2])]

-----------------------------------------------------------------------------
(* OptimizationEngine: validation, fallback, findOptimalRoute.             *)

NoConstraints ==
    [timeWindows |-> <<>>,
     capacity |-> [present |-> FALSE, maxWeight |-> 0],
     emissions |-> [present |-> FALSE, maxCO2 |-> 0, preferLowEmission |-> FALSE],
     avoidNodes |-> [present |-> FALSE, ids |-> {}],
     requiredNodes |-> [present |-> FALSE, ids |-> {}]]

\* new Set(route.segments.flatMap(s => [s.from.id, s.to.id]))
UsedNodes(route) ==
    { route.segments[i].from : i \in DOMAIN route.segments }
    \cup { route.segments[i].to : i \in DOMAIN route.segments }

\* s.to.id throws a TypeError when the to node of a segment is undefined
UsedNodesThrows(route) ==
    \E i \in DOMAIN route.segments : ~route.segments[i].toDefined

\* a validation whose emissions ceiling is hard whatever preferLowEmission says
validateConstraintsHardCeiling(route, constraints) ==
    IF \E i \in DOMAIN constraints.timeWindows :
          /\ constraints.timeWindows[i].hardConstraint
          /\ route.totalTime > constraints.timeWindows[i].span
    THEN "invalid"
    ELSE IF constraints.capacity.present
            /\ \E i \in DOMAIN route.segments :
                 route.segments[i].edge.capacity < constraints.capacity.maxWeight
    THEN "invalid"
    ELSE IF constraints.emissions.present
            /\ route.totalCarbon > constraints.emissions.maxCO2
    THEN "invalid"
    ELSE IF constraints.avoidNodes.present /\ UsedNodesThrows(route)
    THEN "throws"
    ELSE IF constraints.avoidNodes.present
            /\ constraints.avoidNodes.ids \cap UsedNodes(route) # {}
    THEN "invalid"
    ELSE IF constraints.requiredNodes.present /\ UsedNodesThrows(route)
    THEN "throws"
    ELSE IF constraints.requiredNodes.present
            /\ ~(constraints.requiredNodes.ids \subseteq UsedNodes(route))
    THEN "invalid"
    ELSE "valid"

\* "valid", "invalid" or "throws", checked in the order of the source
validateConstraints(route, constraints) ==
    IF \E i \in DOMAIN constraints.timeWindows :
          /\ constraints.timeWindows[i].hardConstraint
          /\ route.totalTime > constraints.timeWindows[i].span
    THEN "invalid"
    ELSE IF constraints.capacity.present
            /\ \E i \in DOMAIN route.segments :
                 route.segments[i].edge.capacity < constraints.capacity.maxWeight
    THEN "invalid"
    ELSE IF constraints.emissions.present
            /\ route.totalCarbon > constraints.emissions.maxCO2
    THEN (IF constraints.emissions.preferLowEmission THEN "valid" ELSE "invalid")
    ELSE IF constraints.avoidNodes.present /\ UsedNodesThrows(route)
    THEN "throws"
    ELSE IF constraints.avoidNodes.present
            /\ constraints.avoidNodes.ids \cap UsedNodes(route) # {}
    THEN "invalid"
    ELSE IF constraints.requiredNodes.present /\ UsedNodesThrows(route)
    THEN "throws"
    ELSE IF constraints.requiredNodes.present
            /\ ~(constraints.requiredNodes.ids \subseteq UsedNodes(route))
    THEN "invalid"
    ELSE "valid"

\* results of an engine call: kind is "none", "route", "throws" or "diverges";
\* validated tells whether the metadata was attached
EngineResult(kind, route, validated) ==
    [kind |-> kind, route |-> route, validated |-> validated]

\* weights are whole multiples of a tenth, so the products are exact
RelaxedConfig(config) ==
    [config EXCEPT !.weights =
        [cost |-> (config.weights.cost * 8) \div 10,
         time |-> (config.weights.time * 12) \div 10,
         carbon |-> (config.weights.carbon * 9) \div 10,
         risk |-> (config.weights.risk * 11) \div 10,
         serviceLevel |-> config.weights.serviceLevel]]

\* a fallback that solves with the bidirectional search instead of Dijkstra
findAlternativeRouteBidirectional(S, startId, goalId, constraints, config) ==
    LET relaxedConfig == RelaxedConfig(config)
        nodePath == findPathBidirectional(S, startId, goalId, relaxedConfig)
    IN IF nodePath.kind = "none" THEN EngineResult("none", EmptyRoute, FALSE)
       ELSE IF nodePath.kind = "diverges" THEN EngineResult("diverges", EmptyRoute, FALSE)
       ELSE LET built == pathToRoute(S, nodePath.path, relaxedConfig) IN
            EngineResult(built.kind, built.route, FALSE)

findAlternativeRoute(S, startId, goalId, constraints, config) ==
    LET relaxedConfig == RelaxedConfig(config)
        nodePath == findPathDijkstra(S, startId, goalId, relaxedConfig)
    IN IF nodePath.kind = "none" THEN EngineResult("none", EmptyRoute, FALSE)
       ELSE IF nodePath.kind = "diverges" THEN EngineResult("diverges", EmptyRoute, FALSE)
       ELSE LET built == pathToRoute(S, nodePath.path, relaxedConfig) IN
            EngineResult(built.kind, built.route, FALSE)

\* a switch whose default branch runs Dijkstra
SelectPathDefaultDijkstra(S, startId, goalId, config) ==
    IF config.algorithm = "dijkstra" THEN findPathDijkstra(S, startId, goalId, config)
    ELSE IF config.algorithm = "bidirectional"
    THEN findPathBidirectional(S, startId, goalId, config)
    ELSE IF config.algorithm = "hybrid"
    THEN LET nodePath == findPathAStar(S, startId, goalId, config) IN
         IF nodePath.kind = "none"
         THEN findPathDijkstra(S, startId, goalId, config)
         ELSE nodePath
    ELSE IF config.algorithm = "astar"
    THEN findPathAStar(S, startId, goalId, config)
    ELSE findPathDijkstra(S, startId, goalId, config)

\* the switch on config.algorithm
SelectPath(S, startId, goalId, config) ==
    IF config.algorithm = "dijkstra" THEN findPathDijkstra(S, startId, goalId, config)
    ELSE IF config.algorithm = "bidirectional"
    THEN findPathBidirectional(S, startId, goalId, config)
    ELSE IF config.algorithm = "hybrid"
    THEN LET nodePath == findPathAStar(S, startId, goalId, config) IN
         IF nodePath.kind = "none"
         THEN findPathDijkstra(S, startId, goalId, config)
         ELSE nodePath
    ELSE findPathAStar(S, startId, goalId, config)

findOptimalRoute(S, startId, goalId, constraints, config) ==
    LET nodePath == SelectPath(S, startId, goalId, config) IN
    IF nodePath.kind = "none" THEN EngineResult("none", EmptyRoute, FALSE)
    ELSE IF nodePath.kind = "diverges" THEN EngineResult("diverges", EmptyRoute, FALSE)
    ELSE LET built == pathToRoute(S, nodePath.path, config) IN
         IF built.kind = "throws" THEN EngineResult("throws", EmptyRoute, FALSE)
         ELSE LET isValid == validateConstraints(built.route, constraints) IN
              IF isValid = "throws" THEN EngineResult("throws", EmptyRoute, FALSE)
              ELSE IF isValid = "invalid"
              THEN findAlternativeRoute(S, startId, goalId, constraints, config)
              ELSE EngineResult("route", built.route, TRUE)

-----------------------------------------------------------------------------
(* OptimizationEngine.reoptimizeRoute.                                     *)

ReoptimizeConfig ==
    [weights |-> [cost |-> 40, time |-> 60, carbon |-> 0, risk |-> 0, serviceLevel |-> 0],
     algorithm |-> "hybrid"]

\* the first loop: <<store, removedEdges>>; removedEdges is a Map keyed by edge id
RECURSIVE RemoveDisrupted(_, _, _)
RemoveDisrupted(S, disruptedEdges, removedEdges) ==
    IF disruptedEdges = <<>> THEN <<S, removedEdges>>
    ELSE LET edgeId == Head(disruptedEdges) IN
         IF MapHas(S.edges, edgeId)
         THEN RemoveDisrupted(removeEdge(S, edgeId), Tail(disruptedEdges),
                              MapSet(removedEdges, MapGet(S.edges, edgeId)))
         ELSE RemoveDisrupted(S, Tail(disruptedEdges), removedEdges)

\* a restore loop that stops after its first entry
RestoreEdgesFirstOnly(S, removedEdges) ==
    IF removedEdges = <<>> THEN S ELSE addEdge(S, Head(removedEdges))

\* the last loop: addEdge for every entry of removedEdges
RECURSIVE RestoreEdges(_, _)
RestoreEdges(S, removedEdges) ==
    IF removedEdges = <<>> THEN S
    ELSE RestoreEdges(addEdge(S, Head(removedEdges)), Tail(removedEdges))

\* currentRoute.segments[currentRoute.segments.length - 1].to.id: <<threw, id>>
Destination(currentRoute) ==
    IF Len(currentRoute.segments) = 0 THEN <<TRUE, EMPTY>>
    ELSE <<FALSE, currentRoute.segments[Len(currentRoute.segments)].to>>

\* `return newRoute`: what the call hands back once the edges are restored
ReturnedRouteOrCurrent(currentRoute, newRoute) ==
    IF newRoute.kind = "none"
    THEN EngineResult("route", BuildRoute(currentRoute.segments), FALSE)
    ELSE newRoute

ReturnedRoute(currentRoute, newRoute) == newRoute

\* the call up to its await: the store as it is left, the snapshot, the outcome
ReoptimizeSolve(S, currentRoute, currentPosition, disruptedEdges) ==
    LET removed == RemoveDisrupted(S, disruptedEdges, <<>>)
        destination == Destination(currentRoute)
    IN [store |-> removed[1],
        removedEdges |-> removed[2],
        newRoute |->
            IF destination[1] THEN EngineResult("throws", EmptyRoute, FALSE)
            ELSE findOptimalRoute(removed[1], currentPosition, destination[2],
                                  currentRoute.constraints, ReoptimizeConfig)]

\* the whole call when nothing runs at its await: the store it leaves, its outcome
reoptimizeRoute(S, currentRoute, currentPosition, disruptedEdges) ==
    LET solved == ReoptimizeSolve(S, currentRoute, currentPosition, disruptedEdges) IN
    IF solved.newRoute.kind \in {"throws", "diverges"}
    THEN [store |-> solved.store, result |-> solved.newRoute]
    ELSE [store |-> RestoreEdges(solved.store, solved.removedEdges),
          result |-> ReturnedRoute(currentRoute, solved.newRoute)]

-----------------------------------------------------------------------------
(* The server as a state machine: one action per operation.                *)

NoSnap == [valid |-> FALSE, store |-> EmptyStore]

NoTask == [active |-> FALSE, removedEdges |-> <<>>,
           newRoute |-> EngineResult("none", EmptyRoute, FALSE)]

NoRun == [pc |-> "idle"]

Call(op, args) == [op |-> op, args |-> args]

Void == [kind |-> "void"]

\* a call whose loop never ends keeps the single thread: nothing runs after it
Free == ret.kind # "diverges" /\ ~task.active

SetStore(S) ==
    /\ nodes' = S.nodes
    /\ edges' = S.edges
    /\ adjacencyList' = S.adjacencyList

Init ==
    /\ nodes = <<>>
    /\ edges = <<>>
    /\ adjacencyList = <<>>
    /\ call = Call("new", <<>>)
    /\ ret = Void
    /\ snap = NoSnap
    /\ task = NoTask
    /\ run = NoRun

AddNode ==
    \E node \in NodeCatalogue :
        /\ Free
        /\ SetStore(addNode(Store, node))
        /\ call' = Call("addNode", <<node>>)
        /\ ret' = Void
        /\ snap' = NoSnap
        /\ UNCHANGED <<task, run>>

\* the adjacency lists are kept within MaxAdjLen
AddEdge ==
    \E edge \in EdgeCatalogue :
        /\ Free
        /\ Len(AdjGet(Store, edge.source)) < MaxAdjLen
        /\ SetStore(addEdge(Store, edge))
        /\ call' = Call("addEdge", <<edge>>)
        /\ ret' = Void
        /\ snap' = [valid |-> TRUE, store |-> Store]
        /\ UNCHANGED <<task, run>>

RemoveNode ==
    \E id \in NodeIds :
        /\ Free
        /\ SetStore(removeNode(Store, id))
        /\ call' = Call("removeNode", <<id>>)
        /\ ret' = Void
        /\ snap' = NoSnap
        /\ UNCHANGED <<task, run>>

\* removeEdge; `snap` is kept when it undoes the addEdge that ran just before
RemoveEdge ==
    \E id \in EdgeIds :
        /\ Free
        /\ SetStore(removeEdge(Store, id))
        /\ call' = Call("removeEdge", <<id>>)
        /\ ret' = Void
        /\ snap' = IF call.op = "addEdge" /\ call.args[1].id = id THEN snap ELSE NoSnap
        /\ UNCHANGED <<task, run>>

-----------------------------------------------------------------------------
(* Networks: stores built from the empty store by addNode and addEdge      *)
(* calls, the way the seeder and the network endpoints build one.          *)

RECURSIVE AddNodes(_, _)
AddNodes(S, ns) == IF ns = <<>> THEN S ELSE AddNodes(addNode(S, Head(ns)), Tail(ns))

RECURSIVE AddEdges(_, _)
AddEdges(S, es) == IF es = <<>> THEN S ELSE AddEdges(addEdge(S, Head(es)), Tail(es))

NodeOf(id) == CHOOSE n \in NodeCatalogue : n.id = id

NodeLists ==
    { SelectSeq(<<NodeOf("a"), NodeOf("b"), NodeOf("c")>>, LAMBDA n : n.id \in ids) :
        ids \in SUBSET NodeIds }

EdgeLists ==
    UNION { [1..n -> EdgeCatalogue] : n \in 0..MaxBuildEdges }

Networks ==
    { AddEdges(AddNodes(EmptyStore, ns), es) : ns \in NodeLists, es \in EdgeLists }

WeightVectors ==
    { [cost |-> 100, time |-> 0, carbon |-> 0, risk |-> 0, serviceLevel |-> 0],
      [cost |-> 0, time |-> 0, carbon |-> 0, risk |-> 0, serviceLevel |-> 0] }

Algorithms == {"astar", "dijkstra", "bidirectional", "hybrid", "other"}

Configs == { [weights |-> w, algorithm |-> a] : w \in WeightVectors, a \in Algorithms }

SolverConfigs == { c \in Configs : c.algorithm = "astar" }

InitOn(stores) ==
    /\ \E S \in stores :
         /\ nodes = S.nodes
         /\ edges = S.edges
         /\ adjacencyList = S.adjacencyList
    /\ call = Call("new", <<>>)
    /\ ret = Void
    /\ snap = NoSnap
    /\ task = NoTask
    /\ run = NoRun

Idle == call.op = "new"

-----------------------------------------------------------------------------
(* SolveSpec: one query on a built network.                                *)

FindPathAStar ==
    \E startId \in QueryIds, goalId \in QueryIds, config \in SolverConfigs :
        /\ Idle
        /\ call' = Call("findPathAStar", <<startId, goalId, config>>)
        /\ ret' = findPathAStar(Store, startId, goalId, config)
        /\ UNCHANGED <<nodes, edges, adjacencyList, snap, task, run>>

FindPathDijkstra ==
    \E startId \in QueryIds, goalId \in QueryIds, config \in SolverConfigs :
        /\ Idle
        /\ call' = Call("findPathDijkstra", <<startId, goalId, config>>)
        /\ ret' = findPathDijkstra(Store, startId, goalId, config)
        /\ UNCHANGED <<nodes, edges, adjacencyList, snap, task, run>>

FindPathBidirectional ==
    \E startId \in QueryIds, goalId \in QueryIds, config \in SolverConfigs :
        /\ Idle
        /\ call' = Call("findPathBidirectional", <<startId, goalId, config>>)
        /\ ret' = findPathBidirectional(Store, startId, goalId, config)
        /\ UNCHANGED <<nodes, edges, adjacencyList, snap, task, run>>

FindOptimalRoute ==
    \E startId \in QueryIds, goalId \in QueryIds, config \in Configs :
        /\ Idle
        /\ call' = Call("findOptimalRoute", <<startId, goalId, config>>)
        /\ ret' = findOptimalRoute(Store, startId, goalId, NoConstraints, config)
        /\ UNCHANGED <<nodes, edges, adjacencyList, snap, task, run>>

SolveNext ==
    FindPathAStar \/ FindPathDijkstra \/ FindPathBidirectional \/ FindOptimalRoute

SolveSpec == InitOn(Networks) /\ [][SolveNext]_vars

-----------------------------------------------------------------------------
(* What the claims about the solvers speak of.                             *)

IsSolverCall ==
    call.op \in {"findPathAStar", "findPathDijkstra", "findPathBidirectional"}

StartId == call.args[1]

GoalId == call.args[2]

EdgeSet(S) == Range(S.edges)

NodeSet(S) == Ids(S.nodes)

\* an edge u -> v is in the edge index
HasEdge(S, u, v) == \E e \in EdgeSet(S) : e.source = u /\ e.target = v

RECURSIVE Closure(_, _)
Closure(pairs, set) ==
    LET next == set \cup { p[2] : p \in { q \in pairs : q[1] \in set } } IN
    IF next = set THEN set ELSE Closure(pairs, next)

\* a directed chain of one or more edges of the edge index leads from s to g
ChainLeads(S, s, g) ==
    LET pairs == { <<e.source, e.target>> : e \in EdgeSet(S) } IN
    g \in Closure(pairs, { p[2] : p \in { q \in pairs : q[1] = s } })

\* the same, through nodes that are all in the node index
ChainThroughNodes(S, s, g) ==
    LET pairs == { <<e.source, e.target>> :
                     e \in { x \in EdgeSet(S) : x.source \in NodeSet(S)
                                                /\ x.target \in NodeSet(S) } }
    IN g \in Closure(pairs, { p[2] : p \in { q \in pairs : q[1] = s } })

Min(set) == CHOOSE x \in set : \A y \in set : x <= y

\* the cheapest edge u -> v under the scalarized cost
PairCost(S, u, v, config) ==
    Min({Infinity} \cup { calculateEdgeCost(e, config) :
                            e \in { x \in EdgeSet(S) : x.source = u /\ x.target = v } })

RECURSIVE PathCost(_, _, _)
PathCost(S, path, config) ==
    IF Len(path) < 2 THEN 0
    ELSE Plus(PairCost(S, path[1], path[2], config), PathCost(S, Tail(path), config))

\* Bellman-Ford over the edge index: the least summed cost of a chain from s
RECURSIVE LeastCosts(_, _, _, _)
LeastCosts(S, config, d, k) ==
    IF k = 0 THEN d
    ELSE LeastCosts(S, config,
            [n \in DOMAIN d |->
                Min({d[n]} \cup { Plus(d[e.source], calculateEdgeCost(e, config)) :
                                    e \in { x \in EdgeSet(S) : x.target = n
                                                /\ x.source \in DOMAIN d } })],
            k - 1)

LeastCost(S, s, g, config) ==
    LET ids == NodeIds \cup {s, g} IN
    LeastCosts(S, config, [n \in ids |-> IF n = s THEN 0 ELSE Infinity],
               Cardinality(ids))[g]

-----------------------------------------------------------------------------
(* C1: a node sequence returned by a solver begins with startId, ends with *)
(* goalId, and each consecutive pair is joined by an edge of the edge      *)
(* index.                                                                  *)
C1_PathJoinsStartToGoal ==
    (IsSolverCall /\ ret.kind = "path") =>
        /\ ret.path[1] = StartId
        /\ ret.path[Len(ret.path)] = GoalId
        /\ \A i \in 1..(Len(ret.path) - 1) :
              HasEdge(Store, ret.path[i], ret.path[i + 1])

(* C2: a solver returns NONE only if no path exists: with startId # goalId *)
(* and a chain of edges from startId to goalId through nodes of the node   *)
(* index, every solver returns a node sequence.                            *)
C2_PathFoundWhenOneExists ==
    (IsSolverCall /\ StartId # GoalId /\ StartId \in NodeSet(Store)
        /\ ChainThroughNodes(Store, StartId, GoalId))
    => ret.kind = "path"

(* C3: when a path exists, findPathDijkstra returns one of least summed    *)
(* scalarized cost.                                                        *)
C3_DijkstraPathIsCheapest ==
    (call.op = "findPathDijkstra" /\ StartId # GoalId /\ StartId \in NodeSet(Store)
        /\ ChainThroughNodes(Store, StartId, GoalId))
    => /\ ret.kind = "path"
       /\ PathCost(Store, ret.path, call.args[3])
            = LeastCost(Store, StartId, GoalId, call.args[3])

(* C5: for a node s of the store every solver returns exactly [s] for      *)
(* (s, s), and the route built from it has no segments, zero totals and    *)
(* reliability 1.                                                          *)
C5_SameStartAndGoal ==
    /\ (IsSolverCall /\ StartId = GoalId /\ StartId \in NodeSet(Store))
        => ret = Path(<<StartId>>)
    /\ (call.op = "findOptimalRoute" /\ StartId = GoalId /\ StartId \in NodeSet(Store))
        => /\ ret.kind = "route"
           /\ ret.route.segments = <<>>
           /\ ret.route.totalDistance = 0
           /\ ret.route.totalTime = 0
           /\ ret.route.totalCarbon = 0
           /\ ret.route.totalCost = ZeroCost
           /\ ret.route.reliability.num = ret.route.reliability.den

(* C6: with startId and goalId both in the store and no chain of edges     *)
(* from startId to goalId, every solver and findOptimalRoute (with every   *)
(* algorithm) return NONE.                                                 *)
C6_NoneWhenDisconnected ==
    ((IsSolverCall \/ call.op = "findOptimalRoute")
        /\ StartId # GoalId
        /\ StartId \in NodeSet(Store) /\ GoalId \in NodeSet(Store)
        /\ ~ChainLeads(Store, StartId, GoalId))
    => ret.kind = "none"

-----------------------------------------------------------------------------
(* RunSpec: a solver call executed loop by loop, on a built network.       *)
(* run.pc names the place in the source the call has reached; run.st holds *)
(* the locals of the loop.                                                 *)

StartRun(op, pc, startId, goalId, config, st) ==
    /\ run.pc = "idle"
    /\ Idle
    /\ call' = Call(op, <<startId, goalId, config>>)
    /\ run' = [pc |-> pc, goalId |-> goalId, config |-> config, st |-> st,
               current |-> EMPTY]
    /\ UNCHANGED <<nodes, edges, adjacencyList, ret, snap, task>>

\* the call returns `result`; a result that is never produced (reconstructPath
\* walking a cycle) leaves the call inside that loop
Return(result) ==
    /\ run' = [run EXCEPT !.pc = IF result.kind = "diverges"
                                 THEN "reconstructPath" ELSE "done"]
    /\ ret' = IF result.kind = "diverges" THEN ret ELSE result
    /\ UNCHANGED <<nodes, edges, adjacencyList, call, snap, task>>

Goto(pc, st, current) ==
    /\ run' = [run EXCEPT !.pc = pc, !.st = st, !.current = current]
    /\ UNCHANGED <<nodes, edges, adjacencyList, call, ret, snap, task>>

StartAStar ==
    \E startId \in QueryIds, goalId \in QueryIds, config \in SolverConfigs :
        StartRun("findPathAStar", "astar.pick", startId, goalId, config,
                 AStarInit(Store, startId, goalId))

\* the loop test, the scan for the lowest fScore and the goal test
AStarPick ==
    /\ run.pc = "astar.pick"
    /\ IF run.st.openSet = <<>> THEN Return(None)
       ELSE LET current == AStarCurrent(run.st) IN
            IF current = run.goalId
            THEN Return(reconstructPath(run.st.cameFrom, current))
            ELSE Goto("astar.expand", run.st, current)

\* openSet.delete(current) and the relaxation of its neighbours
AStarExpandStep ==
    /\ run.pc = "astar.expand"
    /\ Goto("astar.pick",
            AStarExpand(Store, run.st, run.current, run.goalId, run.config),
            run.current)

StartDijkstra ==
    \E startId \in QueryIds, goalId \in QueryIds, config \in SolverConfigs :
        StartRun("findPathDijkstra", "dijkstra.loop", startId, goalId, config,
                 DijkstraInit(Store, startId))

\* one iteration of the while loop: the loop test, the scan for the smallest
\* distance, the goal test, the break, and the relaxation of the neighbours
DijkstraIteration ==
    /\ run.pc = "dijkstra.loop"
    /\ IF run.st.unvisited = <<>> THEN Return(None)
       ELSE LET sel == DijkstraCurrent(run.st) IN
            IF sel[1] = run.goalId
            THEN Return(reconstructPath(run.st.previous, sel[1]))
            ELSE IF sel[2] = Infinity THEN Return(None)
            ELSE Goto("dijkstra.loop",
                      DijkstraExpand(Store, run.st, sel[1], run.config), sel[1])

StartBidirectional ==
    \E startId \in QueryIds, goalId \in QueryIds, config \in SolverConfigs :
        StartRun("findPathBidirectional", "bidi.forward", startId, goalId, config,
                 BidiInit(startId, goalId))

\* the loop test and the forward half of the iteration
BidiForwardStep ==
    /\ run.pc = "bidi.forward"
    /\ IF run.st.forwardQueue = <<>> /\ run.st.backwardQueue = <<>>
       THEN Return(None)
       ELSE LET f == BidiForward(Store, run.st) IN
            IF f.result # Running THEN Return(f.result)
            ELSE Goto("bidi.backward", f.st, run.current)

BidiBackwardStep ==
    /\ run.pc = "bidi.backward"
    /\ LET b == BidiBackward(Store, run.st) IN
       IF b.result # Running THEN Return(b.result)
       ELSE Goto("bidi.forward", b.st, run.current)

RunStep ==
    \/ AStarPick \/ AStarExpandStep
    \/ DijkstraIteration
    \/ BidiForwardStep \/ BidiBackwardStep

RunNext == StartAStar \/ StartDijkstra \/ StartBidirectional \/ RunStep

RunSpec == InitOn(Networks) /\ [][RunNext]_vars

\* a synchronous loop keeps running: the steps of a started call are taken
RunFairSpec == RunSpec /\ WF_vars(RunStep)

(* C4: every solver call terminates, whatever the store, startId and       *)
(* goalId.                                                                 *)
C4_SolversTerminate == (run.pc # "idle") ~> (run.pc = "done")

-----------------------------------------------------------------------------
(* ReoptSpec: one reoptimizeRoute call on a built network.  The call is    *)
(* suspended once, at `await this.findOptimalRoute(...)`, after REMOVE and *)
(* SOLVE and before RESTORE.                                               *)

\* a segment as a client sends it back in currentRoute
InputSegment(i, edge, toId) ==
    [index |-> i,
     from |-> edge.source, fromDefined |-> TRUE,
     to |-> toId, toDefined |-> TRUE,
     edge |-> edge,
     distance |-> edge.distance,
     estimatedTime |-> edge.baseTime,
     cost |-> ZeroCost,
     carbonEmissions |-> edge.carbonEmissions * edge.distance]

\* currentRoute values: no segments; a -> b; a -> b -> c; a last segment whose
\* to.id is the empty string
CurrentRoutes ==
    { [segments |-> <<>>, constraints |-> NoConstraints],
      [segments |-> <<InputSegment(0, MkEdge("e1", "a", "b", 1, 1), "b")>>,
       constraints |-> NoConstraints],
      [segments |-> <<InputSegment(0, MkEdge("e1", "a", "b", 1, 1), "b"),
                      InputSegment(1, MkEdge("e2", "b", "c", 1, 1), "c")>>,
       constraints |-> NoConstraints],
      [segments |-> <<InputSegment(0, MkEdge("e1", "a", "b", 1, 1), EMPTY)>>,
       constraints |-> NoConstraints] }

\* disruptedEdges values: ids of the store, an id no store holds, repeated ids
DisruptedLists ==
    { <<>>, <<"e1">>, <<"e2">>, <<"e1", "e2">>, <<"e1", "e1">>, <<"zz">>,
      <<"zz", "e3", "e3">> }

Pending == [kind |-> "pending"]

\* lines 421-447: REMOVE, the destination, SOLVE.  A TypeError or a solve that
\* never returns ends the call here, before RESTORE.
ReoptimizeRoute ==
    \E currentRoute \in CurrentRoutes, currentPosition \in NodeIds,
       disruptedEdges \in DisruptedLists :
        LET solved == ReoptimizeSolve(Store, currentRoute, currentPosition,
                                      disruptedEdges)
        IN /\ Idle
           /\ SetStore(solved.store)
           /\ call' = Call("reoptimizeRoute",
                           <<currentRoute, currentPosition, disruptedEdges>>)
           /\ snap' = [valid |-> TRUE, store |-> Store]
           /\ IF solved.newRoute.kind \in {"throws", "diverges"}
              THEN /\ ret' = solved.newRoute
                   /\ task' = NoTask
              ELSE /\ ret' = Pending
                   /\ task' = [active |-> TRUE,
                               removedEdges |-> solved.removedEdges,
                               newRoute |-> solved.newRoute]
           /\ UNCHANGED run

\* an overlapping call whose loop never ends keeps the single thread
Hung == run.pc \in {"queried", "failed"} /\ run.result.kind = "diverges"

\* lines 449-454: RESTORE and return
ReoptimizeResume ==
    /\ task.active
    /\ ~Hung
    /\ SetStore(RestoreEdges(Store, task.removedEdges))
    /\ ret' = ReturnedRoute(call.args[1], task.newRoute)
    /\ task' = NoTask
    /\ UNCHANGED <<call, snap, run>>

ReoptNext == ReoptimizeRoute \/ ReoptimizeResume

ReoptSpec == InitOn(Networks) /\ [][ReoptNext]_vars

Returned == call.op = "reoptimizeRoute" /\ ret.kind \in {"route", "none"}

DisruptedIds == Range(call.args[3])

(* C7: when reoptimizeRoute has returned, with a route or with NONE, the   *)
(* edge index holds exactly the edges it held before the call.             *)
C7_EdgeIndexRestored ==
    Returned => EdgeSet(Store) = EdgeSet(snap.store)

\* a call that returned NONE after removing e3, listed twice after an unknown id
C7_Witness ==
    /\ Returned
    /\ ret.kind = "none"
    /\ call.args[3] = <<"zz", "e3", "e3">>
    /\ MapHas(snap.store.edges, "e3")

(* C8: when reoptimizeRoute fails with an error after REMOVE, every edge   *)
(* it removed is back in the store when the call exits.                    *)
C8_RestoredOnError ==
    (call.op = "reoptimizeRoute" /\ ret.kind = "throws")
    => EdgeSet(Store) = EdgeSet(snap.store)

-----------------------------------------------------------------------------
(* Spec: the store under its four mutators, from the empty store.          *)

Next == AddNode \/ AddEdge \/ RemoveNode \/ RemoveEdge

Spec == Init /\ [][Next]_vars

\* the adjacency lists agree up to the order of their elements; a missing slot
\* reads as an empty list (adjacencyList.get(id) || [])
Count(list, x) == Cardinality({ i \in DOMAIN list : list[i] = x })

SameAdjacency(S, T) ==
    \A id \in (DOMAIN S.adjacencyList) \cup (DOMAIN T.adjacencyList) :
        \A x \in Range(AdjGet(S, id)) \cup Range(AdjGet(T, id)) :
            Count(AdjGet(S, id), x) = Count(AdjGet(T, id), x)

(* C10: addEdge(e) followed by removeEdge(e.id) leaves the edge index and  *)
(* the adjacency lists as they were before addEdge, up to the order within *)
(* an adjacency list.                                                      *)
C10_AddThenRemoveRestores ==
    (call.op = "removeEdge" /\ snap.valid)
    => /\ EdgeSet(Store) = EdgeSet(snap.store)
       /\ SameAdjacency(Store, snap.store)

-----------------------------------------------------------------------------
(* Adjacency against the edge index.                                       *)

RECURSIVE SumLengths(_, _)
SumLengths(adj, keys) ==
    IF keys = {} THEN 0
    ELSE LET k == CHOOSE x \in keys : TRUE
         IN Len(adj[k]) + SumLengths(adj, keys \ {k})

\* getStats: totalDegree, the sum of the lengths of the adjacency lists
totalDegree(S) == SumLengths(S.adjacencyList, DOMAIN S.adjacencyList)

AdjacencyKeys(S) == NodeIds \cup DOMAIN S.adjacencyList

(* C11: after every sequence of mutations an edge id occurs in the         *)
(* adjacency list of node n exactly when the edge index holds an edge with *)
(* that id whose source is n, and then exactly once; so the total degree   *)
(* of getStats is the number of edges.                                     *)
C11_AdjacencyMatchesEdges ==
    /\ \A n \in AdjacencyKeys(Store), id \in EdgeIds :
          Count(AdjGet(Store, n), id) =
              IF MapHas(edges, id) /\ MapGet(edges, id).source = n THEN 1 ELSE 0
    /\ totalDegree(Store) = Len(edges)

\* what getNeighbors must yield for n: the entries of n's adjacency list, in
\* order, whose edge is in the edge index and whose target is in the node index
LiveEdgeIds(S, n) ==
    SelectSeq(AdjGet(S, n),
              LAMBDA id : /\ MapHas(S.edges, id)
                          /\ MapHas(S.nodes, MapGet(S.edges, id).target))

(* C12: after removeNode(id) no edge leaving or arriving at id is left in  *)
(* the edge index, and in every state getNeighbors(n) yields, in adjacency *)
(* order, only pairs whose edge is in the edge index and whose node is in  *)
(* the node index.                                                         *)
C12_NoDanglingReads ==
    /\ call.op = "removeNode"
         => \A e \in EdgeSet(Store) :
               e.source # call.args[1] /\ e.target # call.args[1]
    /\ \A n \in AdjacencyKeys(Store) :
          LET neighbors == getNeighbors(Store, n) IN
          /\ \A i \in DOMAIN neighbors :
                /\ neighbors[i].edge \in EdgeSet(Store)
                /\ neighbors[i].node \in Range(nodes)
                /\ neighbors[i].node.id = neighbors[i].edge.target
          /\ [i \in DOMAIN neighbors |-> neighbors[i].edge.id] = LiveEdgeIds(Store, n)

\* removeNode took away an edge that a node still in the store lists, and
\* getNeighbors of that node leaves it out
C12_Witness ==
    /\ call.op = "removeNode"
    /\ \E n \in NodeIds :
          /\ MapHas(nodes, n)
          /\ \E i \in DOMAIN AdjGet(Store, n) : ~MapHas(edges, AdjGet(Store, n)[i])
          /\ Len(getNeighbors(Store, n)) < Len(AdjGet(Store, n))

-----------------------------------------------------------------------------
(* ParetoSpec: findParetoOptimal applied to a list of candidate routes.    *)
(* A candidate carries what the filter reads: its id (route-<Date.now()>,  *)
(* equal for routes built in the same millisecond), totalCost.total,       *)
(* totalTime, totalCarbon and riskScore (whole numbers here).              *)

MaxCandidates == 3

RouteIds == {"route-1", "route-2"}

CandidateRoutes ==
    { [id |-> id, totalCost |-> [total |-> c], totalTime |-> t,
       totalCarbon |-> 0, riskScore |-> r] :
        id \in RouteIds, c \in 1..2, t \in 1..2, r \in 0..1 }

CandidateLists == UNION { [1..n -> CandidateRoutes] : n \in 0..MaxCandidates }

RouteObjectives(route) ==
    [cost |-> route.totalCost.total, time |-> route.totalTime,
     carbon |-> route.totalCarbon, risk |-> route.riskScore]

\* the filter with a dominance test that is not strict
DominatesOrEquals(otherObjectives, objectives) ==
    /\ otherObjectives.cost <= objectives.cost
    /\ otherObjectives.time <= objectives.time
    /\ otherObjectives.carbon <= objectives.carbon
    /\ otherObjectives.risk <= objectives.risk

Dominates(otherObjectives, objectives) ==
    /\ otherObjectives.cost <= objectives.cost
    /\ otherObjectives.time <= objectives.time
    /\ otherObjectives.carbon <= objectives.carbon
    /\ otherObjectives.risk <= objectives.risk
    /\ \/ otherObjectives.cost < objectives.cost
       \/ otherObjectives.time < objectives.time
       \/ otherObjectives.carbon < objectives.carbon
       \/ otherObjectives.risk < objectives.risk

\* the inner loop: routes with the id of `route` are passed over
IsDominated(routes, route) ==
    \E j \in DOMAIN routes :
        /\ routes[j].id # route.id
        /\ Dominates(RouteObjectives(routes[j]), RouteObjectives(route))

findParetoOptimal(routes) ==
    [i \in DOMAIN routes |->
        [route |-> routes[i],
         objectives |-> RouteObjectives(routes[i]),
         isOptimal |-> ~IsDominated(routes, routes[i])]]

FindParetoOptimal ==
    /\ Idle
    /\ \E routes \in CandidateLists :
           /\ call' = Call("findParetoOptimal", <<routes>>)
           /\ ret' = [kind |-> "frontier", points |-> findParetoOptimal(routes)]
           /\ UNCHANGED <<nodes, edges, adjacencyList, snap, task, run>>

ParetoNext == FindParetoOptimal

ParetoSpec == InitOn({EmptyStore}) /\ [][ParetoNext]_vars

\* R' dominates R: no worse on cost, time, carbon and risk, better on one
Better(p, q) ==
    /\ p.totalCost.total <= q.totalCost.total
    /\ p.totalTime <= q.totalTime
    /\ p.totalCarbon <= q.totalCarbon
    /\ p.riskScore <= q.riskScore
    /\ <<p.totalCost.total, p.totalTime, p.totalCarbon, p.riskScore>>
         # <<q.totalCost.total, q.totalTime, q.totalCarbon, q.riskScore>>

DominatedInFrontier(i) ==
    \E j \in DOMAIN ret.points :
        j # i /\ Better(ret.points[j].route, ret.points[i].route)

C14_NonOptimalDominated ==
    ret.kind = "frontier"
    => /\ Len(ret.points) = Len(call.args[1])
       /\ \A i \in DOMAIN ret.points :
             /\ ret.points[i].route = call.args[1][i]
             /\ ret.points[i].isOptimal \in BOOLEAN
             /\ ~ret.points[i].isOptimal => DominatedInFrontier(i)

\* a frontier with a point flagged not optimal next to one with the same
\* objective vector under another id
C14_Witness ==
    /\ ret.kind = "frontier"
    /\ \E i, j, k \in DOMAIN ret.points :
          /\ ~ret.points[i].isOptimal
          /\ j # k
          /\ ret.points[j].route.id # ret.points[k].route.id
          /\ ret.points[j].objectives = ret.points[k].objectives

-----------------------------------------------------------------------------
(* RouteSpec: pathToRoute applied to a node path on a built network.       *)

MaxPathLen == 3

NodePaths == UNION { [1..n -> NodeIds \cup {EMPTY}] : n \in 0..MaxPathLen }

PathToRoute ==
    /\ Idle
    /\ \E nodePath \in NodePaths, config \in SolverConfigs :
           /\ call' = Call("pathToRoute", <<nodePath, config>>)
           /\ ret' = pathToRoute(Store, nodePath, config)
           /\ UNCHANGED <<nodes, edges, adjacencyList, snap, task, run>>

RouteNext == PathToRoute

RouteSpec == InitOn(Networks) /\ [][RouteNext]_vars

Built == call.op = "pathToRoute" /\ ret.kind = "route"

\* the eight components of a CostBreakdown, total left out
Components(c) ==
    c.linehaul + c.fuelSurcharge + c.accessorials + c.detention + c.drayage
    + c.tolls + c.customs + c.insurance

CostKeys ==
    {"linehaul", "fuelSurcharge", "accessorials", "detention", "drayage",
     "tolls", "customs", "insurance", "total"}

C17_ReliabilityIsProduct ==
    Built
    => LET r == ret.route
           product == ProdSeq(Reliabilities(r.segments))
           whole == Power(100, Len(r.segments))
           risk == Min({100 * whole, (whole - product) * 100})
       IN /\ r.reliability.num * whole = product * r.reliability.den
          /\ r.riskScore.num * whole = risk * r.riskScore.den

-----------------------------------------------------------------------------
(* Routes returned by findOptimalRoute.                                    *)

RouteReturned == call.op = "findOptimalRoute" /\ ret.kind = "route"

(* C16: in a route of N >= 1 segments returned by findOptimalRoute each    *)
(* segment ends at the node where the next one starts, the first segment   *)
(* starts at the requested start and the last one ends at the requested    *)
(* goal (a segment whose from or to node is undefined has no such id).     *)
C16_SegmentsChain ==
    (RouteReturned /\ Len(ret.route.segments) >= 1)
    => LET segs == ret.route.segments
           N == Len(segs)
       IN /\ \A i \in 1..(N - 1) :
                /\ segs[i].toDefined
                /\ segs[i + 1].fromDefined
                /\ segs[i].to = segs[i + 1].from
          /\ segs[1].fromDefined /\ segs[1].from = StartId
          /\ segs[N].toDefined /\ segs[N].to = GoalId

-----------------------------------------------------------------------------
(* SeedSpec: optimizeForScenario on the seed network of the mock data      *)
(* service.  carbonEmissions of the seed edges is in hundredths of kg/km;  *)
(* no preset mixes the carbon weight with another objective.               *)

SeedNodes ==
    << [id |-> "ny-hub", lng |-> -7401, customsRequired |-> TRUE],
       [id |-> "la-hub", lng |-> -11824, customsRequired |-> FALSE],
       [id |-> "chicago-hub", lng |-> -8763, customsRequired |-> FALSE],
       [id |-> "atlanta-hub", lng |-> -8439, customsRequired |-> FALSE],
       [id |-> "dallas-hub", lng |-> -9680, customsRequired |-> FALSE],
       [id |-> "seattle-hub", lng |-> -12233, customsRequired |-> FALSE],
       [id |-> "la-port", lng |-> -11827, customsRequired |-> TRUE],
       [id |-> "ny-port", lng |-> -7404, customsRequired |-> TRUE],
       [id |-> "jfk-airport", lng |-> -7378, customsRequired |-> TRUE],
       [id |-> "lax-airport", lng |-> -11841, customsRequired |-> TRUE],
       [id |-> "memphis-warehouse", lng |-> -9005, customsRequired |-> FALSE],
       [id |-> "chicago-rail", lng |-> -8765, customsRequired |-> FALSE] >>

SeedEdges ==
    << [id |-> "edge-ny-chicago-road",
        source |-> "ny-hub", target |-> "chicago-hub",
        baseCost |-> 1500, baseTime |-> 840, distance |-> 1270,
        carbonEmissions |-> 12, reliability |-> 92, capacity |-> 25000,
        fuelCost |-> 300, tollCost |-> 85],
       [id |-> "edge-chicago-ny-road",
        source |-> "chicago-hub", target |-> "ny-hub",
        baseCost |-> 1500, baseTime |-> 840, distance |-> 1270,
        carbonEmissions |-> 12, reliability |-> 92, capacity |-> 25000,
        fuelCost |-> 300, tollCost |-> 85],
       [id |-> "edge-la-dallas-road",
        source |-> "la-hub", target |-> "dallas-hub",
        baseCost |-> 2200, baseTime |-> 1320, distance |-> 2250,
        carbonEmissions |-> 11, reliability |-> 89, capacity |-> 28000,
        fuelCost |-> 450, tollCost |-> 45],
       [id |-> "edge-chicago-atlanta-road",
        source |-> "chicago-hub", target |-> "atlanta-hub",
        baseCost |-> 1300, baseTime |-> 720, distance |-> 1130,
        carbonEmissions |-> 12, reliability |-> 91, capacity |-> 26000,
        fuelCost |-> 280, tollCost |-> 35],
       [id |-> "edge-seattle-la-road",
        source |-> "seattle-hub", target |-> "la-hub",
        baseCost |-> 1900, baseTime |-> 1080, distance |-> 1850,
        carbonEmissions |-> 13, reliability |-> 88, capacity |-> 24000,
        fuelCost |-> 400, tollCost |-> 25],
       [id |-> "edge-la-chicago-rail",
        source |-> "la-hub", target |-> "chicago-rail",
        baseCost |-> 2500, baseTime |-> 2880, distance |-> 3300,
        carbonEmissions |-> 4, reliability |-> 95, capacity |-> 80000,
        fuelCost |-> 600, tollCost |-> 0],
       [id |-> "edge-chicago-ny-rail",
        source |-> "chicago-rail", target |-> "ny-hub",
        baseCost |-> 1800, baseTime |-> 1440, distance |-> 1420,
        carbonEmissions |-> 4, reliability |-> 94, capacity |-> 75000,
        fuelCost |-> 350, tollCost |-> 0],
       [id |-> "edge-laport-nyport-sea",
        source |-> "la-port", target |-> "ny-port",
        baseCost |-> 3500, baseTime |-> 14400, distance |-> 8300,
        carbonEmissions |-> 1, reliability |-> 87, capacity |-> 500000,
        fuelCost |-> 1200, tollCost |-> 0],
       [id |-> "edge-lax-jfk-air",
        source |-> "lax-airport", target |-> "jfk-airport",
        baseCost |-> 8500, baseTime |-> 330, distance |-> 3970,
        carbonEmissions |-> 85, reliability |-> 93, capacity |-> 15000,
        fuelCost |-> 2500, tollCost |-> 0],
       [id |-> "edge-jfk-lax-air",
        source |-> "jfk-airport", target |-> "lax-airport",
        baseCost |-> 8700, baseTime |-> 360, distance |-> 3970,
        carbonEmissions |-> 85, reliability |-> 93, capacity |-> 15000,
        fuelCost |-> 2600, tollCost |-> 0],
       [id |-> "edge-laport-lahub-road",
        source |-> "la-port", target |-> "la-hub",
        baseCost |-> 200, baseTime |-> 60, distance |-> 35,
        carbonEmissions |-> 12, reliability |-> 96, capacity |-> 30000,
        fuelCost |-> 25, tollCost |-> 0],
       [id |-> "edge-nyport-nyhub-road",
        source |-> "ny-port", target |-> "ny-hub",
        baseCost |-> 180, baseTime |-> 50, distance |-> 28,
        carbonEmissions |-> 12, reliability |-> 95, capacity |-> 32000,
        fuelCost |-> 22, tollCost |-> 0],
       [id |-> "edge-lax-lahub-road",
        source |-> "lax-airport", target |-> "la-hub",
        baseCost |-> 150, baseTime |-> 55, distance |-> 30,
        carbonEmissions |-> 11, reliability |-> 97, capacity |-> 20000,
        fuelCost |-> 20, tollCost |-> 0],
       [id |-> "edge-jfk-nyhub-road",
        source |-> "jfk-airport", target |-> "ny-hub",
        baseCost |-> 140, baseTime |-> 45, distance |-> 26,
        carbonEmissions |-> 12, reliability |-> 94, capacity |-> 18000,
        fuelCost |-> 18, tollCost |-> 0],
       [id |-> "edge-dallas-atlanta-road",
        source |-> "dallas-hub", target |-> "atlanta-hub",
        baseCost |-> 1450, baseTime |-> 780, distance |-> 1280,
        carbonEmissions |-> 12, reliability |-> 90, capacity |-> 26000,
        fuelCost |-> 310, tollCost |-> 40],
       [id |-> "edge-atlanta-ny-road",
        source |-> "atlanta-hub", target |-> "ny-hub",
        baseCost |-> 1550, baseTime |-> 840, distance |-> 1380,
        carbonEmissions |-> 12, reliability |-> 91, capacity |-> 25000,
        fuelCost |-> 330, tollCost |-> 55] >>

SeedNetwork == AddEdges(AddNodes(EmptyStore, SeedNodes), SeedEdges)

SeedNodeIds == { SeedNodes[i].id : i \in DOMAIN SeedNodes }

Scenarios == {"lowest_cost", "fastest", "greenest", "most_reliable"}

\* the presets; route.confidence, attached for a stochastic preset, is left out
ScenarioConfig(scenario) ==
    IF scenario = "lowest_cost"
    THEN [weights |-> [cost |-> 100, time |-> 0, carbon |-> 0, risk |-> 0,
                       serviceLevel |-> 0],
          algorithm |-> "dijkstra"]
    ELSE IF scenario = "fastest"
    THEN [weights |-> [cost |-> 0, time |-> 100, carbon |-> 0, risk |-> 0,
                       serviceLevel |-> 0],
          algorithm |-> "astar"]
    ELSE IF scenario = "greenest"
    THEN [weights |-> [cost |-> 0, time |-> 0, carbon |-> 100, risk |-> 0,
                       serviceLevel |-> 0],
          algorithm |-> "dijkstra"]
    ELSE [weights |-> [cost |-> 10, time |-> 10, carbon |-> 0, risk |-> 50,
                       serviceLevel |-> 30],
          algorithm |-> "hybrid"]

optimizeForScenario(S, startId, goalId, scenario) ==
    findOptimalRoute(S, startId, goalId, NoConstraints, ScenarioConfig(scenario))

OptimizeForScenario ==
    /\ Idle
    /\ \E startId \in SeedNodeIds, goalId \in SeedNodeIds, scenario \in Scenarios :
           /\ call' = Call("optimizeForScenario", <<startId, goalId, scenario>>)
           /\ ret' = optimizeForScenario(Store, startId, goalId, scenario)
           /\ UNCHANGED <<nodes, edges, adjacencyList, snap, task, run>>

SeedNext == OptimizeForScenario

SeedSpec == InitOn({SeedNetwork}) /\ [][SeedNext]_vars

(* C18: on the seed network optimizeForScenario('lax-airport',             *)
(* 'jfk-airport', 'fastest') returns a route whose only segment uses edge  *)
(* edge-lax-jfk-air, with totalTime 330.                                   *)
C18_FastestTakesAirEdge ==
    (call.op = "optimizeForScenario"
     /\ call.args = <<"lax-airport", "jfk-airport", "fastest">>)
    => /\ ret.kind = "route"
       /\ Len(ret.route.segments) = 1
       /\ ret.route.segments[1].edge.id = "edge-lax-jfk-air"
       /\ ret.route.totalTime = 330

(* C19: on the seed network optimizeForScenario('la-port', 'ny-port',      *)
(* 'greenest') returns a route whose only segment uses edge                *)
(* edge-laport-nyport-sea.                                                 *)
C19_GreenestTakesSeaEdge ==
    (call.op = "optimizeForScenario"
     /\ call.args = <<"la-port", "ny-port", "greenest">>)
    => /\ ret.kind = "route"
       /\ Len(ret.route.segments) = 1
       /\ ret.route.segments[1].edge.id = "edge-laport-nyport-sea"

-----------------------------------------------------------------------------
(* ConstraintSpec: findOptimalRoute under route constraints, on the        *)
(* networks that hold all three nodes.                                     *)

FullNetworks == { S \in Networks : Ids(S.nodes) = NodeIds }

\* a hard time window is given by its span end - start in minutes; capacity
\* 10 is above every catalogue edge; maxCO2 0 is below every segment and
\* maxCO2 10 is what one segment emits
ConstraintSets ==
    { [timeWindows |-> tw, capacity |-> cap, emissions |-> em,
       avoidNodes |-> av, requiredNodes |-> rq] :
        tw \in {<<>>, <<[hardConstraint |-> TRUE, span |-> 0]>>},
        cap \in {[present |-> FALSE, maxWeight |-> 0],
                 [present |-> TRUE, maxWeight |-> 10]},
        em \in {[present |-> FALSE, maxCO2 |-> 0, preferLowEmission |-> FALSE],
                [present |-> TRUE, maxCO2 |-> 0, preferLowEmission |-> FALSE],
                [present |-> TRUE, maxCO2 |-> 0, preferLowEmission |-> TRUE],
                [present |-> TRUE, maxCO2 |-> 10, preferLowEmission |-> FALSE],
                [present |-> TRUE, maxCO2 |-> 10, preferLowEmission |-> TRUE]},
        av \in {[present |-> FALSE, ids |-> {}],
                [present |-> TRUE, ids |-> {"a"}],
                [present |-> TRUE, ids |-> {"c"}]},
        rq \in {[present |-> FALSE, ids |-> {}],
                [present |-> TRUE, ids |-> {"b"}]} }

ConstrainedConfigs == { c \in Configs : c.weights.cost = 100 }

\* goalId is any string a caller passes; reoptimizeRoute passes the to.id of the
\* client's last segment, the empty string included
QueryGoals == QueryIds \cup {EMPTY}

FindOptimalRouteUnder ==
    /\ Idle
    /\ \E startId \in QueryIds, goalId \in QueryGoals, config \in ConstrainedConfigs,
          constraints \in ConstraintSets :
           /\ call' = Call("findOptimalRoute", <<startId, goalId, config, constraints>>)
           /\ ret' = findOptimalRoute(Store, startId, goalId, constraints, config)
           /\ UNCHANGED <<nodes, edges, adjacencyList, snap, task, run>>

ConstraintNext == FindOptimalRouteUnder

ConstraintSpec == InitOn(FullNetworks) /\ [][ConstraintNext]_vars

\* the ids of the endpoints of the segments of a route
Endpoints(route) ==
    { route.segments[i].from : i \in DOMAIN route.segments }
    \cup { route.segments[i].to : i \in DOMAIN route.segments }

(* C20: validation rejects every route with a segment endpoint listed in   *)
(* avoidNodes, whatever the other constraint fields are: a route that      *)
(* findOptimalRoute returns as validated visits no avoided node.           *)
C20_AvoidNodesRejected ==
    (RouteReturned /\ ret.validated /\ Len(call.args) = 4
     /\ call.args[4].avoidNodes.present)
    => Endpoints(ret.route) \cap call.args[4].avoidNodes.ids = {}

-----------------------------------------------------------------------------
(* Stores whose indexes disagree: absent endpoints, re-added edge ids.     *)

\* an edge of the index names a node the node index lacks, or the query does
AbsentEndpoint ==
    \/ \E e \in EdgeSet(Store) :
          ~MapHas(nodes, e.source) \/ ~MapHas(nodes, e.target)
    \/ ~MapHas(nodes, StartId)
    \/ ~MapHas(nodes, GoalId)

(* C26: with an edge whose source or target is not in the node index, or a *)
(* start or goal id that is not, findOptimalRoute completes under every    *)
(* algorithm with a route or with NONE, without raising, and no segment of *)
(* a returned route has an absent from or to node.                         *)
C26_AbsentEndpointsTolerated ==
    (call.op = "findOptimalRoute" /\ AbsentEndpoint)
    => /\ ret.kind \in {"route", "none"}
       /\ \A i \in DOMAIN ret.route.segments :
             ret.route.segments[i].fromDefined /\ ret.route.segments[i].toDefined

(* C27: every (node, edge) pair that getNeighbors(n) yields has            *)
(* edge.source = n, also after an edge id was added again with another     *)
(* source or target, and every segment pathToRoute builds has              *)
(* edge.source = from.id and edge.target = to.id.                          *)
C27_EdgeSourceMatchesOwner ==
    /\ \A n \in NodeIds :
          LET neighbors == getNeighbors(Store, n) IN
          \A i \in DOMAIN neighbors : neighbors[i].edge.source = n
    /\ Built
       => \A i \in DOMAIN ret.route.segments :
             LET seg == ret.route.segments[i] IN
             seg.edge.source = seg.from /\ seg.edge.target = seg.to

-----------------------------------------------------------------------------
(* findOptimalRoute under constraints: the primary solve and what follows. *)

ConstrainedCall == call.op = "findOptimalRoute" /\ Len(call.args) = 4

\* the path the algorithm of the call selects
PrimaryPath == SelectPath(Store, call.args[1], call.args[2], call.args[3])

PrimaryBuilt ==
    /\ ConstrainedCall
    /\ PrimaryPath.kind = "path"
    /\ pathToRoute(Store, PrimaryPath.path, call.args[3]).kind = "route"

PrimaryRoute == pathToRoute(Store, PrimaryPath.path, call.args[3]).route

PrimaryRejected ==
    PrimaryBuilt /\ validateConstraints(PrimaryRoute, call.args[4]) = "invalid"

(* C21: when the primary route fails validation, findOptimalRoute makes    *)
(* one Dijkstra solve with the weights cost * 0.8, time * 1.2,             *)
(* carbon * 0.9, risk * 1.1 and serviceLevel unchanged, and returns the    *)
(* route of that solve without validation and without metadata, or NONE    *)
(* when the solve finds no path; it never returns the rejected primary.    *)
C21_OneRelaxedDijkstraFallback ==
    PrimaryRejected
    => LET w == call.args[3].weights
           relaxed == [cost |-> (w.cost * 8) \div 10,
                       time |-> (w.time * 12) \div 10,
                       carbon |-> (w.carbon * 9) \div 10,
                       risk |-> (w.risk * 11) \div 10,
                       serviceLevel |-> w.serviceLevel]
           relaxedConfig == [call.args[3] EXCEPT !.weights = relaxed]
           nodePath == findPathDijkstra(Store, call.args[1], call.args[2],
                                        relaxedConfig)
       IN IF nodePath.kind = "none" THEN ret.kind = "none"
          ELSE /\ nodePath.kind = "path"
               /\ ret.kind = "route"
               /\ ~ret.validated
               /\ ret.route = pathToRoute(Store, nodePath.path, relaxedConfig).route

\* a primary route with a segment was rejected and the fallback found no path
C21_Witness ==
    /\ PrimaryRejected
    /\ Len(PrimaryRoute.segments) >= 1
    /\ ret.kind = "none"

\* the emissions ceiling is the only constraint of the call
OnlyEmissions ==
    /\ call.args[4].timeWindows = <<>>
    /\ ~call.args[4].capacity.present
    /\ ~call.args[4].avoidNodes.present
    /\ ~call.args[4].requiredNodes.present

(* C22: a primary route with totalCarbon > maxCO2 is rejected and the      *)
(* fallback runs when preferLowEmission is false; when it is true the      *)
(* exceeded ceiling alone does not reject the route; a route with          *)
(* totalCarbon <= maxCO2 is never rejected by the emissions check.         *)
C22_EmissionsCeiling ==
    (PrimaryBuilt /\ call.args[4].emissions.present)
    => LET em == call.args[4].emissions
           exceeded == PrimaryRoute.totalCarbon > em.maxCO2
           accepted == EngineResult("route", PrimaryRoute, TRUE)
       IN /\ (exceeded /\ ~em.preferLowEmission)
             => ret = findAlternativeRoute(Store, call.args[1], call.args[2],
                                           call.args[4], call.args[3])
          /\ (exceeded /\ em.preferLowEmission /\ OnlyEmissions) => ret = accepted
          /\ (~exceeded /\ OnlyEmissions) => ret = accepted

\* a route over the soft ceiling was accepted
C22_Witness ==
    /\ PrimaryBuilt
    /\ call.args[4].emissions.present
    /\ call.args[4].emissions.preferLowEmission
    /\ OnlyEmissions
    /\ PrimaryRoute.totalCarbon > call.args[4].emissions.maxCO2
    /\ ret.kind = "route"
    /\ ret.validated

\* the call as it runs with another algorithm
WithAlgorithm(algorithm) ==
    findOptimalRoute(Store, call.args[1], call.args[2], call.args[4],
                     [call.args[3] EXCEPT !.algorithm = algorithm])

(* C23: 'hybrid' uses the A* path whenever A* returns one and the Dijkstra *)
(* result exactly when A* returns NONE; an algorithm value that is not     *)
(* recognised behaves exactly like 'astar'.                                *)
C23_HybridAndDefaultDispatch ==
    ConstrainedCall
    => LET aStar == findPathAStar(Store, call.args[1], call.args[2], call.args[3])
       IN /\ call.args[3].algorithm = "hybrid"
             => ret = IF aStar.kind = "none" THEN WithAlgorithm("dijkstra")
                      ELSE WithAlgorithm("astar")
          /\ call.args[3].algorithm \notin
                {"astar", "dijkstra", "bidirectional", "hybrid"}
             => ret = WithAlgorithm("astar")

\* a hybrid call whose A* search returned a path, and the route built from it
C23_Witness ==
    /\ ConstrainedCall
    /\ call.args[3].algorithm = "hybrid"
    /\ findPathAStar(Store, call.args[1], call.args[2], call.args[3]).kind = "path"
    /\ ret.kind = "route"

-----------------------------------------------------------------------------
(* OverlapSpec: calls that overlap a reoptimizeRoute call.  An async call  *)
(* runs up to its await without interruption; while the first call is      *)
(* suspended at line 435 (`task`), a caller that did not await it can      *)
(* start a second reoptimizeRoute or a query (`run`), and the two          *)
(* suspended calls resume in either order.  After a call that ran alone    *)
(* has returned, a later query runs on the store it left.                  *)

\* a second reoptimizeRoute call, up to its await
ReoptimizeOverlap ==
    /\ task.active
    /\ run.pc = "idle"
    /\ \E currentRoute \in CurrentRoutes, currentPosition \in NodeIds,
          disruptedEdges \in DisruptedLists :
           LET solved == ReoptimizeSolve(Store, currentRoute, currentPosition,
                                         disruptedEdges)
           IN /\ SetStore(solved.store)
              /\ run' = [pc |-> IF solved.newRoute.kind \in {"throws", "diverges"}
                                THEN "failed" ELSE "await",
                         disruptedEdges |-> disruptedEdges,
                         removedEdges |-> solved.removedEdges,
                         result |-> solved.newRoute]
              /\ UNCHANGED <<call, ret, snap, task>>

\* the second call's RESTORE and return
OverlapResume ==
    /\ run.pc = "await"
    /\ SetStore(RestoreEdges(Store, run.removedEdges))
    /\ run' = [run EXCEPT !.pc = "returned"]
    /\ UNCHANGED <<call, ret, snap, task>>

\* a findOptimalRoute call, or one iteration of generateParetoFrontier (lines
\* 107-121), made while the first call is suspended; `edges` is the index it read
QueryOverlap ==
    /\ task.active
    /\ run.pc = "idle"
    /\ \E startId \in QueryIds, goalId \in QueryIds, config \in ConstrainedConfigs :
           run' = [pc |-> "queried",
                   args |-> <<startId, goalId, config>>,
                   edges |-> edges,
                   result |-> findOptimalRoute(Store, startId, goalId,
                                               NoConstraints, config)]
    /\ UNCHANGED <<nodes, edges, adjacencyList, call, ret, snap, task>>

\* a findOptimalRoute call made after a reoptimizeRoute call that ran alone has
\* returned; `snap` still holds the store from before that call
QueryAfter ==
    /\ Returned
    /\ run.pc = "idle"
    /\ \E startId \in QueryIds, goalId \in QueryIds, config \in ConstrainedConfigs :
           /\ call' = Call("findOptimalRoute", <<startId, goalId, config>>)
           /\ ret' = findOptimalRoute(Store, startId, goalId, NoConstraints, config)
    /\ UNCHANGED <<nodes, edges, adjacencyList, snap, task, run>>

OverlapNext ==
    \/ ReoptimizeRoute
    \/ ReoptimizeResume
    \/ ReoptimizeOverlap
    \/ OverlapResume
    \/ QueryOverlap
    \/ QueryAfter

OverlapSpec == InitOn(FullNetworks) /\ [][OverlapNext]_vars

\* both overlapping calls have returned, with a route or with NONE
BothReturned == Returned /\ run.pc = "returned"

\* the edges the two calls took out of the store and put back
RestoredEdges ==
    { e \in EdgeSet(snap.store) : e.id \in DisruptedIds \cup Range(run.disruptedEdges) }

(* C28: once two overlapping reoptimizeRoute calls have both completed,    *)
(* whatever the interleaving and whether their disrupted sets are          *)
(* disjoint, overlapping or identical, the edge index equals the one from  *)
(* before either started and every restored edge id occurs exactly once in *)
(* the adjacency list of its source.                                       *)
C28_OverlappingCallsRestore ==
    BothReturned
    => /\ EdgeSet(Store) = EdgeSet(snap.store)
       /\ \A e \in RestoredEdges : Count(AdjGet(Store, e.source), e.id) = 1

(* C29: a findOptimalRoute call or Pareto iteration that overlaps a        *)
(* reoptimizeRoute call in flight never solves against a store that lacks  *)
(* the disrupted edges: whenever another task can run, the removed edges   *)
(* are back in the edge index.                                             *)
C29_QueriesSeeRestoredStore ==
    run.pc = "queried" => EdgeSet(snap.store) \subseteq Range(run.edges)

\* the segment edge ids of the route of an engine result
SegmentEdgeIds(result) ==
    [i \in DOMAIN result.route.segments |-> result.route.segments[i].edge.id]

-----------------------------------------------------------------------------
(* generateWeightCombinations.  The weights are IEEE-754 doubles: i / steps *)
(* and every subtraction round to 53 significant bits (nearest, ties to    *)
(* even).  A double of magnitude at most 1 is a record                     *)
(* [neg, hi, lo] of value (+/-) (hi * Limb + lo) * 2^-56, which holds      *)
(* every double met here exactly.                                          *)

Limb == Power(2, 28)

\* round the magnitude hi * Limb + lo (+ a fraction when sticky) to 53 bits
DblRound(hi, lo, sticky) ==
    LET d == IF hi >= Power(2, 27) THEN 3
             ELSE IF hi >= Power(2, 26) THEN 2
             ELSE IF hi >= Power(2, 25) THEN 1
             ELSE 0
        m == Power(2, d)
        low == lo % m
        base == lo - low
        up == \/ 2 * low > m
              \/ 2 * low = m /\ (sticky \/ (base \div m) % 2 = 1)
    IN IF ~up THEN [hi |-> hi, lo |-> base]
       ELSE IF base + m = Limb THEN [hi |-> hi + 1, lo |-> 0]
       ELSE [hi |-> hi, lo |-> base + m]

\* i / steps for integers 0 <= i <= steps, steps < 8
Quotient(i, steps) ==
    LET qh == (i * Limb) \div steps
        r1 == (i * Limb) % steps
        ql == (r1 * Limb) \div steps
        r2 == (r1 * Limb) % steps
        r == DblRound(qh, ql, r2 # 0)
    IN [neg |-> FALSE, hi |-> r.hi, lo |-> r.lo]

\* a + b without rounding
ExactAdd(a, b) ==
    LET less == a.hi < b.hi \/ (a.hi = b.hi /\ a.lo < b.lo)
        big == IF less THEN b ELSE a
        small == IF less THEN a ELSE b
        sum == [hi |-> a.hi + b.hi + (a.lo + b.lo) \div Limb,
                lo |-> (a.lo + b.lo) % Limb]
        diff == IF big.lo < small.lo
                THEN [hi |-> big.hi - small.hi - 1, lo |-> big.lo + Limb - small.lo]
                ELSE [hi |-> big.hi - small.hi, lo |-> big.lo - small.lo]
    IN IF a.neg = b.neg THEN [neg |-> a.neg, hi |-> sum.hi, lo |-> sum.lo]
       ELSE [neg |-> big.neg /\ (diff.hi # 0 \/ diff.lo # 0),
             hi |-> diff.hi, lo |-> diff.lo]

\* a - b as the double subtraction computes it
DblSub(a, b) ==
    LET x == ExactAdd(a, [b EXCEPT !.neg = ~b.neg])
        r == DblRound(x.hi, x.lo, FALSE)
    IN [neg |-> x.neg, hi |-> r.hi, lo |-> r.lo]

\* a * 0.5, exact on the multiples of 2^-55 that reach it
DblHalf(a) ==
    [neg |-> a.neg, hi |-> a.hi \div 2, lo |-> (a.hi % 2) * (Limb \div 2) + a.lo \div 2]

\* the body of the innermost loop: one weight vector
WeightVector(steps, i, j, k) ==
    LET costWeight == Quotient(i, steps)
        timeWeight == Quotient(j, steps)
        carbonWeight == Quotient(k, steps)
        remaining == DblSub(DblSub(DblSub(Quotient(steps, steps), costWeight),
                                   timeWeight),
                            carbonWeight)
    IN [cost |-> costWeight, time |-> timeWeight, carbon |-> carbonWeight,
        risk |-> DblHalf(remaining), serviceLevel |-> DblHalf(remaining)]

\* the pushes of a loop, one after the other
RECURSIVE Flatten(_)
Flatten(seqs) == IF seqs = <<>> THEN <<>> ELSE Head(seqs) \o Flatten(Tail(seqs))

\* the three nested loops: i and j run over 0..steps, k over 0..steps - i - j
generateWeightCombinations ==
    LET steps == 5 IN
    Flatten([i \in 1..(steps + 1) |->
        Flatten([j \in 1..(steps + 1) |->
            [k \in 1..(steps - (i - 1) - (j - 1) + 1) |->
                WeightVector(steps, i - 1, j - 1, k - 1)]])])

-----------------------------------------------------------------------------
(* EnumerationSpec: the read-only calls of the engine on a built network.  *)
(* generateParetoFrontier runs one findOptimalRoute per weight vector and  *)
(* is suspended at its await after each of them (line 117).  None of       *)
(* findOptimalRoute, findAlternativeRoute, validateConstraints, the three  *)
(* searches and pathToRoute assigns to nodes, edges or adjacencyList or    *)
(* calls a mutator of GraphEngine: they fill local maps and the route.     *)

\* a store on which a solve has left each adjacency list turned around
StoreAfterSolveReversed(S) ==
    [S EXCEPT !.adjacencyList =
        [n \in DOMAIN S.adjacencyList |->
            [i \in 1..Len(S.adjacencyList[n]) |->
                S.adjacencyList[n][Len(S.adjacencyList[n]) + 1 - i]]]]

\* the store as a findOptimalRoute call leaves it
StoreAfterSolve(S) == S

\* lines 101-105: the weight grid, before the first iteration
GenerateParetoFrontier ==
    /\ Idle
    /\ \E startId \in QueryIds, goalId \in QueryGoals :
           call' = Call("generateParetoFrontier", <<startId, goalId>>)
    /\ run' = [pc |-> "pareto",
               weightCombinations |-> generateWeightCombinations,
               next |-> 1,
               candidateRoutes |-> <<>>]
    /\ ret' = Pending
    /\ snap' = [valid |-> TRUE, store |-> Store, call |-> call, ret |-> ret]
    /\ UNCHANGED <<nodes, edges, adjacencyList, task>>

\* lines 107-121: one iteration.  The solver takes the weights in hundredths;
\* every route a hybrid solve returns has no segments, so its riskScore is 0 and
\* the ids `route-${Date.now()}` of one enumeration are taken within one
\* millisecond.
ParetoIteration ==
    /\ run.pc = "pareto"
    /\ run.next <= Len(run.weightCombinations)
    /\ LET weights == run.weightCombinations[run.next]
           hundredths(w) == ((w.hi \div Power(2, 8)) * 100 + Power(2, 19))
                               \div Power(2, 20)
           config == [weights |-> [cost |-> hundredths(weights.cost),
                                   time |-> hundredths(weights.time),
                                   carbon |-> hundredths(weights.carbon),
                                   risk |-> hundredths(weights.risk),
                                   serviceLevel |-> hundredths(weights.serviceLevel)],
                      algorithm |-> "hybrid"]
           route == findOptimalRoute(Store, call.args[1], call.args[2],
                                     NoConstraints, config)
           candidate == [id |-> "route-1",
                         totalCost |-> route.route.totalCost,
                         totalTime |-> route.route.totalTime,
                         totalCarbon |-> route.route.totalCarbon,
                         riskScore |-> route.route.riskScore.num
                                          \div route.route.riskScore.den]
       IN /\ SetStore(StoreAfterSolve(Store))
          /\ IF route.kind \in {"throws", "diverges"}
             THEN /\ ret' = route
                  /\ run' = [run EXCEPT !.pc = "stopped"]
             ELSE /\ ret' = ret
                  /\ run' = [run EXCEPT
                               !.next = @ + 1,
                               !.candidateRoutes =
                                   IF route.kind = "route" THEN Append(@, candidate)
                                   ELSE @]
    /\ UNCHANGED <<call, snap, task>>

\* lines 123-133: the filter and the result
ParetoFinish ==
    /\ run.pc = "pareto"
    /\ run.next > Len(run.weightCombinations)
    /\ ret' = [kind |-> "frontier",
               points |-> findParetoOptimal(run.candidateRoutes),
               totalPointsEvaluated |-> Len(run.candidateRoutes)]
    /\ run' = [run EXCEPT !.pc = "done"]
    /\ UNCHANGED <<nodes, edges, adjacencyList, call, snap, task>>

\* findOptimalRoute, as a first call or as the same call made once more
Query ==
    /\ run.pc = "idle"
    /\ \E startId \in QueryIds, goalId \in QueryGoals, config \in ConstrainedConfigs :
           /\ \/ Idle
              \/ /\ call = Call("findOptimalRoute", <<startId, goalId, config>>)
                 /\ snap.call.op = "new"
           /\ call' = Call("findOptimalRoute", <<startId, goalId, config>>)
           /\ ret' = findOptimalRoute(Store, startId, goalId, NoConstraints, config)
    /\ SetStore(StoreAfterSolve(Store))
    /\ snap' = [valid |-> TRUE, store |-> Store, call |-> call, ret |-> ret]
    /\ UNCHANGED <<task, run>>

ScenarioQuery ==
    /\ Idle
    /\ \E startId \in QueryIds, goalId \in QueryGoals, scenario \in Scenarios :
           /\ call' = Call("optimizeForScenario", <<startId, goalId, scenario>>)
           /\ ret' = optimizeForScenario(Store, startId, goalId, scenario)
    /\ SetStore(StoreAfterSolve(Store))
    /\ snap' = [valid |-> TRUE, store |-> Store, call |-> call, ret |-> ret]
    /\ UNCHANGED <<task, run>>

EnumerationNext ==
    \/ GenerateParetoFrontier
    \/ ParetoIteration
    \/ ParetoFinish
    \/ Query
    \/ ScenarioQuery

EnumerationSpec == InitOn(FullNetworks) /\ [][EnumerationNext]_vars

\* the sum of the five components of a weight vector, without rounding
ComponentSum(w) ==
    ExactAdd(ExactAdd(ExactAdd(ExactAdd(w.cost, w.time), w.carbon), w.risk),
             w.serviceLevel)

\* the triples (i, j, k) of the grid
GridTriples ==
    { t \in (0..5) \X (0..5) \X (0..5) : t[1] + t[2] + t[3] <= 5 }

(* C24: generateWeightCombinations yields exactly 56 vectors, one for each *)
(* (i, j, k) >= 0 with i + j + k <= 5, with cost = i/5, time = j/5,        *)
(* carbon = k/5 and risk = serviceLevel = (1 - cost - time - carbon) / 2;  *)
(* every component is non-negative and the five sum to 1; a finished       *)
(* enumeration has made one solve per vector.                              *)
C24_WeightGrid ==
    call.op = "generateParetoFrontier"
    => LET ws == run.weightCombinations IN
       /\ Len(ws) = 56
       /\ { <<ws[n].cost, ws[n].time, ws[n].carbon>> : n \in DOMAIN ws }
             = { <<Quotient(t[1], 5), Quotient(t[2], 5), Quotient(t[3], 5)>> :
                    t \in GridTriples }
       /\ \A n \in DOMAIN ws :
             /\ ws[n].risk = ws[n].serviceLevel
             /\ ~ws[n].cost.neg /\ ~ws[n].time.neg /\ ~ws[n].carbon.neg
             /\ ~ws[n].risk.neg /\ ~ws[n].serviceLevel.neg
             /\ ComponentSum(ws[n]) = Quotient(5, 5)
       /\ ret.kind = "frontier" => run.next = 57

ReadCall ==
    call.op \in {"findOptimalRoute", "optimizeForScenario", "generateParetoFrontier"}

====
